---------------------------- MODULE Spec2Model ----------------------------
(***************************************************************************)
(* A model of examples/generate.py of dead-ringer: the generator of the    *)
(* example binary pairs.  The state is the output directory, the console,  *)
(* the process-wide random source, the Python objects the active builder   *)
(* holds and the position of the interpreter in the script.  One action    *)
(* per builder body and one per step of write_bin (the evaluation of the   *)
(* call's arguments, open, write and close, print).                        *)
(*                                                                         *)
(* Byte sequences are TLA+ sequences of 0..255.  Python offsets start at   *)
(* 0 and TLA+ indices at 1: At and Store do the shift.                     *)
(***************************************************************************)
EXTENDS Integers, Sequences, FiniteSets

(***************************************************************************)
(* Bounds of the model.                                                    *)
(***************************************************************************)
\* how many times the script is run against the same directory
MaxRuns == 2
\* how many generator variants (seed-to-stream mappings) are explored
NumAlgs == 2

VARIABLES
    alg,      \* the variant of the library's generator this interpreter has
    run,      \* how many runs of the script have started
    pc,       \* where the interpreter is in the script
    bi,       \* the index in Builders of the builder being run
    rng,      \* the process-wide random source
    drawLog,  \* per builder that drew in this run: its first and last draw
    heap,     \* the live Python objects: id -> [type, val]
    nobj,     \* how many objects this run has allocated
    frame,    \* the active builder and its local list of indices
    calls,    \* the write_bin calls the active builder has yet to make
    cur,      \* the write_bin call in progress: [name, data]
    dir,      \* the output directory: file name -> content
    out,      \* the console of this run
    wlog,     \* the write_bin calls entered in this run
    prev      \* how the previous run ended and the directory it left

vars == <<alg, run, pc, bi, rng, drawLog, heap, nobj, frame, calls, cur, dir,
          out, wlog, prev>>

(***************************************************************************)
(* Bytes.                                                                  *)
(***************************************************************************)
Byte == 0..255

At(s, i) == s[i + 1]

Store(s, i, v) == [s EXCEPT ![i + 1] = v]

\* bytes(range(n))
Range(n) == [i \in 1..n |-> i - 1]

\* the offsets at which two sequences of the same length differ
DiffAt(a, b) == {i \in 0..(Len(a) - 1) : At(a, i) # At(b, i)}

IsBytes(s) == \A i \in 1..Len(s) : s[i] \in Byte

\* the reading of two bytes as a little-endian number
UnpackLE16(lo, hi) == lo + 256 * hi

(***************************************************************************)
(* The random source.  The script seeds the process-wide generator of the  *)
(* standard library with 42 and draws with randint and sample.  The        *)
(* library's word generator is not part of the repository: it is modelled  *)
(* as a family of full-period 16-bit congruential generators, one per      *)
(* variant a, whose outputs are the high bits of the state.  A generator   *)
(* is [s |-> state, calls |-> number of randint and sample calls served].  *)
(* randint, _randbelow and sample are computed on top of the word          *)
(* generator as the library computes them: by rejection.  Loops over many  *)
(* draws are unfolded by halving the count, which threads the generator    *)
(* through the draws in the same left-to-right order as the loop.          *)
(***************************************************************************)
Seed == 42

Modulus == 65536

Mult == 25173

Incr(a) == 13849 + 2 * a

\* a generator seeded from the time the process starts, not from the seed
random_seed_from_clock(a, seed) ==
    [s |-> (seed * (2 * a + 1) + 7919 * a + 4099 * run) % Modulus, calls |-> 0]

\* random.seed(42): the generator the seed is scrambled to under variant a
random_seed(a, seed) ==
    [s |-> (seed * (2 * a + 1) + 7919 * a) % Modulus, calls |-> 0]

Step(a, s) == (Mult * s + Incr(a)) % Modulus

Pow2(k) == 2 ^ k

\* int.bit_length: the number of bits of n, 0 for 0
bit_length(n) ==
    CHOOSE k \in 0..16 : n < Pow2(k) /\ (k > 0 => Pow2(k - 1) <= n)

\* getrandbits(k), k <= 16: advance the state, return its k high bits
getrandbits(a, s, k) ==
    LET t == Step(a, s) IN [v |-> t \div Pow2(16 - k), s |-> t]

\* the loop of _randbelow: draw words until the value is below n
RECURSIVE RandbelowLoop(_, _, _, _)
RandbelowLoop(a, s, n, k) ==
    LET r == getrandbits(a, s, k)
    IN  IF r.v < n THEN r ELSE RandbelowLoop(a, r.s, n, k)

\* _randbelow(n): draw bit_length(n) bits until the value is below n
randbelow(a, s, n) == RandbelowLoop(a, s, n, bit_length(n))

\* random.randint(lo, hi): lo + _randbelow(hi - lo + 1)
randint(a, g, lo, hi) ==
    LET r == randbelow(a, g.s, hi - lo + 1)
    IN  [v |-> lo + r.v, g |-> [s |-> r.s, calls |-> g.calls + 1]]

\* (random.randint(0, 255) for _ in range(n)): n draws, in order
RECURSIVE RandBytes(_, _, _)
RandBytes(a, g, n) ==
    IF n = 0 THEN [v |-> <<>>, g |-> g]
    ELSE IF n = 1 THEN LET r == randint(a, g, 0, 255) IN [v |-> <<r.v>>, g |-> r.g]
    ELSE LET h == n \div 2
             l == RandBytes(a, g, h)
             r == RandBytes(a, l.g, n - h)
         IN  [v |-> l.v \o r.v, g |-> r.g]

\* one round of sample's loop: j = randbelow(n) until j is not selected
RECURSIVE SampleOne(_, _, _, _)
SampleOne(a, s, n, selected) ==
    LET r == randbelow(a, s, n)
    IN  IF r.v \in selected THEN SampleOne(a, r.s, n, selected) ELSE r

\* k rounds of sample's loop from the set selected so far
RECURSIVE SampleLoop(_, _, _, _, _)
SampleLoop(a, s, n, k, selected) ==
    IF k = 0 THEN [v |-> <<>>, s |-> s, selected |-> selected]
    ELSE IF k = 1
         THEN LET r == SampleOne(a, s, n, selected)
              IN  [v |-> <<r.v>>, s |-> r.s, selected |-> selected \cup {r.v}]
    ELSE LET h == k \div 2
             l == SampleLoop(a, s, n, h, selected)
             r == SampleLoop(a, l.s, n, k - h, l.selected)
         IN  [v |-> l.v \o r.v, s |-> r.s, selected |-> r.selected]

\* k rounds that never look at what is selected already
RECURSIVE SampleLoopWithReplacement(_, _, _, _, _)
SampleLoopWithReplacement(a, s, n, k, selected) ==
    IF k = 0 THEN [v |-> <<>>, s |-> s, selected |-> selected]
    ELSE IF k = 1
         THEN LET r == randbelow(a, s, n)
              IN  [v |-> <<r.v>>, s |-> r.s, selected |-> selected \cup {r.v}]
    ELSE LET h == k \div 2
             l == SampleLoopWithReplacement(a, s, n, h, selected)
             r == SampleLoopWithReplacement(a, l.s, n, k - h, l.selected)
         IN  [v |-> l.v \o r.v, s |-> r.s, selected |-> r.selected]

\* sample with the membership test of its loop left out
sample_with_replacement(a, g, n, k) ==
    LET r == SampleLoopWithReplacement(a, g.s, n, k, {})
    IN  [v |-> r.v, g |-> [s |-> r.s, calls |-> g.calls + 1]]

\* random.sample(range(n), k), the branch the library takes for a
\* population larger than its set-size threshold (n = 512, k = 80: 277)
sample(a, g, n, k) ==
    LET r == SampleLoop(a, g.s, n, k, {})
    IN  [v |-> r.v, g |-> [s |-> r.s, calls |-> g.calls + 1]]

\* sorted(list): ascending, equal elements kept
RECURSIVE sorted(_)
sorted(list) ==
    IF Len(list) <= 1 THEN list
    ELSE LET p == list[1]
             rest == Tail(list)
         IN  sorted(SelectSeq(rest, LAMBDA x : x < p)) \o <<p>>
             \o sorted(SelectSeq(rest, LAMBDA x : x >= p))

(***************************************************************************)
(* Python objects.  A bytes object is immutable and a bytearray is not;    *)
(* an object is known by its id, and two names bound to one id share       *)
(* their storage.                                                          *)
(***************************************************************************)
Obj(type, val) == [type |-> type, val |-> val]

EmptyHeap == [i \in {} |-> Obj("bytes", <<>>)]

EmptyDir == [n \in {} |-> <<>>]

NoCall == [name |-> "", data |-> 0]

NoFrame == [fn |-> "", indices |-> <<>>]

\* the file of the directory d named name holds data, the others are kept
Put(d, name, data) ==
    [n \in DOMAIN d \cup {name} |-> IF n = name THEN data ELSE d[n]]

\* a line of the console: what it is, the path and the byte count it tells
Line(kind, path, bytes) == [kind |-> kind, path |-> path, bytes |-> bytes]

\* a write_bin call of a builder: the file name and the argument, an
\* expression over the builder's objects numbered in order of creation:
\* "ref" passes the object itself, "bytes" passes bytes(object), a new
\* object, and "concat" passes the sum of the objects, a new object
CallOf(name, op, of) == [name |-> name, op |-> op, of |-> of]

\* modified[i] = v for every <<i, v>> of edits, in order
RECURSIVE ApplyEdits(_, _)
ApplyEdits(s, edits) ==
    IF edits = <<>> THEN s
    ELSE ApplyEdits(Store(s, edits[1][1], edits[1][2]), Tail(edits))

(***************************************************************************)
(* generate_simple_pair                                                    *)
(***************************************************************************)
SimpleSize == 64

\* an edit list with the second offset one too far
SimpleEditsShifted ==
    <<<<0, 255>>, <<16, 170>>, <<31, 187>>, <<47, 204>>, <<63, 221>>>>

\* modified[0] = 0xFF ... modified[63] = 0xDD
SimpleEdits ==
    <<<<0, 255>>, <<15, 170>>, <<31, 187>>, <<47, 204>>, <<63, 221>>>>

SimpleBody ==
    LET base == Range(SimpleSize)
    IN  [objs |-> <<Obj("bytes", base),
                    Obj("bytearray", ApplyEdits(base, SimpleEdits))>>,
         calls |-> <<CallOf("simple_v1.bin", "ref", <<1>>),
                     CallOf("simple_v2.bin", "bytes", <<2>>)>>]

(***************************************************************************)
(* generate_header_pair                                                    *)
(***************************************************************************)
HeaderBodySize == 120

\* b"\x7fELF" and b"\x7fOLF"
MagicV1 == <<127, 69, 76, 70>>

MagicV2 == <<127, 79, 76, 70>>

\* struct.pack(">H", v): most significant byte first
PackBE16(v) == <<(v \div 256) % 256, v % 256>>

\* struct.pack("<H", v): two bytes, least significant first
PackLE16(v) == <<v % 256, (v \div 256) % 256>>

HeaderBody(a, g) ==
    LET body == RandBytes(a, g, HeaderBodySize)
    IN  [objs |-> <<Obj("bytes", MagicV1), Obj("bytes", MagicV2),
                    Obj("bytes", PackLE16(1)), Obj("bytes", PackLE16(2)),
                    Obj("bytes", body.v)>>,
         calls |-> <<CallOf("header_original.bin", "concat", <<1, 3, 5>>),
                     CallOf("header_modified.bin", "concat", <<2, 4, 5>>)>>,
         g |-> body.g]

(***************************************************************************)
(* generate_firmware_pair                                                  *)
(***************************************************************************)
FirmwareSize == 512

FirmwareEdits == 80

\* for i in indices[lo..hi]: v2[i] = (v1[i] + random.randint(1, 255)) & 0xFF
\* (done counts the rounds made; the left half is made before the right)
RECURSIVE ApplyDeltas(_, _, _, _, _, _, _)
ApplyDeltas(a, g, v1, v2, indices, lo, hi) ==
    IF lo > hi THEN [done |-> 0, v |-> v2, g |-> g]
    ELSE IF lo = hi
         THEN LET r == randint(a, g, 1, 255)
                  i == indices[lo]
              IN  [done |-> 1, v |-> Store(v2, i, (At(v1, i) + r.v) % 256),
                   g |-> r.g]
    ELSE LET mid == (lo + hi) \div 2
             l == ApplyDeltas(a, g, v1, v2, indices, lo, mid)
             r == ApplyDeltas(a, l.g, v1, l.v, indices, mid + 1, hi)
         IN  [done |-> l.done + r.done, v |-> r.v, g |-> r.g]

FirmwareBody(a, g) ==
    LET size == FirmwareSize
        d == RandBytes(a, g, size)
        v1 == d.v
        smp == sample(a, d.g, size, FirmwareEdits)
        indices == sorted(smp.v)
        r == ApplyDeltas(a, smp.g, v1, v1, indices, 1, Len(indices))
    IN  [objs |-> <<Obj("bytearray", v1), Obj("bytearray", r.v)>>,
         calls |-> <<CallOf("firmware_v1.bin", "bytes", <<1>>),
                     CallOf("firmware_v2.bin", "bytes", <<2>>)>>,
         indices |-> indices,
         g |-> r.g]

(***************************************************************************)
(* generate_text_pair                                                      *)
(***************************************************************************)
\* the four lines, as ASCII codes
TextOriginal ==
    <<84, 104, 101, 32, 113, 117, 105, 99, 107, 32, 98, 114, 111, 119, 110,
      32, 102, 111, 120, 32, 106, 117, 109, 112, 115, 32, 111, 118, 101,
      114, 32, 116, 104, 101, 32, 108, 97, 122, 121, 32, 100, 111, 103, 46,
      10,
      80, 97, 99, 107, 32, 109, 121, 32, 98, 111, 120, 32, 119, 105, 116,
      104, 32, 102, 105, 118, 101, 32, 100, 111, 122, 101, 110, 32, 108,
      105, 113, 117, 111, 114, 32, 106, 117, 103, 115, 46, 10,
      72, 111, 119, 32, 118, 101, 120, 105, 110, 103, 108, 121, 32, 113,
      117, 105, 99, 107, 32, 100, 97, 102, 116, 32, 122, 101, 98, 114, 97,
      115, 32, 106, 117, 109, 112, 33, 10,
      84, 104, 101, 32, 102, 105, 118, 101, 32, 98, 111, 120, 105, 110, 103,
      32, 119, 105, 122, 97, 114, 100, 115, 32, 106, 117, 109, 112, 32, 113,
      117, 105, 99, 107, 108, 121, 46, 10>>

\* an edit list whose last edit writes "!" over the "!" that ends line 3
TextEditsOnBang ==
    <<<<4, 81>>, <<10, 66>>, <<35, 76>>, <<80, 90>>, <<121, 33>>>>

\* modified[4] = ord("Q") ... modified[120] = ord("!")
TextEdits ==
    <<<<4, 81>>, <<10, 66>>, <<35, 76>>, <<80, 90>>, <<120, 33>>>>

TextBody ==
    [objs |-> <<Obj("bytes", TextOriginal),
                Obj("bytearray", ApplyEdits(TextOriginal, TextEdits))>>,
     calls |-> <<CallOf("text_original.bin", "ref", <<1>>),
                 CallOf("text_modified.bin", "bytes", <<2>>)>>]

(***************************************************************************)
(* generate_identical_pair                                                 *)
(***************************************************************************)
IdenticalSize == 256

\* both calls naming the same file
IdenticalCallsOneName ==
    <<CallOf("identical_a.bin", "ref", <<1>>),
      CallOf("identical_a.bin", "ref", <<1>>)>>

\* the second call passing a copy of data
IdenticalCallsCopied ==
    <<CallOf("identical_a.bin", "ref", <<1>>),
      CallOf("identical_b.bin", "bytes", <<1>>)>>

\* write_bin("identical_a.bin", data); write_bin("identical_b.bin", data)
IdenticalCalls ==
    <<CallOf("identical_a.bin", "ref", <<1>>),
      CallOf("identical_b.bin", "ref", <<1>>)>>

IdenticalBody ==
    [objs |-> <<Obj("bytes", Range(IdenticalSize))>>, calls |-> IdenticalCalls]

(***************************************************************************)
(* The script: the builders in the order of the main block, and the steps  *)
(* of write_bin in the order of its statements.                            *)
(***************************************************************************)
\* the main block with the two drawing builders exchanged
BuildersFirmwareFirst ==
    <<"generate_simple_pair", "generate_firmware_pair",
      "generate_header_pair", "generate_text_pair",
      "generate_identical_pair">>

Builders ==
    <<"generate_simple_pair", "generate_header_pair",
      "generate_firmware_pair", "generate_text_pair",
      "generate_identical_pair">>

\* write_bin with the print ahead of the with block
WriteBinStepsPrintFirst == <<"print", "open", "write">>

\* with open(path, "wb") as f: f.write(data), then print
WriteBinSteps == <<"open", "write", "print">>

\* where the interpreter goes after a step of write_bin that raised nothing
NextStep(step) ==
    LET i == CHOOSE k \in 1..Len(WriteBinSteps) : WriteBinSteps[k] = step
    IN  IF i < Len(WriteBinSteps) THEN WriteBinSteps[i + 1] ELSE "return"

\* an except clause around the with block that drops the error
OnErrorSwallowed(step) == NextStep(step)

\* an OSError in write_bin meets no handler in write_bin, in the builder
\* or in the main block: the process ends
OnError(step) == "aborted"

\* what a write that fails when the buffer is flushed may leave of the data
PartialLens(data) == {0, Len(data) \div 2}

Init ==
    /\ alg \in 1..NumAlgs
    /\ run = 0
    /\ pc = "idle"
    /\ bi = 0
    /\ rng = [s |-> 0, calls |-> 0]
    /\ drawLog = <<>>
    /\ heap = EmptyHeap
    /\ nobj = 0
    /\ frame = NoFrame
    /\ calls = <<>>
    /\ cur = NoCall
    /\ dir = EmptyDir
    /\ out = <<>>
    /\ wlog = <<>>
    /\ prev = [pc |-> "none", dir |-> EmptyDir]

\* A run of the script: a new process, which seeds the generator when the
\* module is loaded and prints the banner on entering the main block.
Start ==
    /\ pc \in {"idle", "done", "aborted"}
    /\ run < MaxRuns
    /\ run' = run + 1
    /\ prev' = [pc |-> pc, dir |-> dir]
    /\ rng' = random_seed(alg, Seed)
    /\ out' = <<Line("banner", "", 0)>>
    /\ drawLog' = <<>>
    /\ heap' = EmptyHeap
    /\ nobj' = 0
    /\ frame' = NoFrame
    /\ calls' = <<>>
    /\ cur' = NoCall
    /\ wlog' = <<>>
    /\ bi' = 1
    /\ pc' = "build"
    /\ UNCHANGED <<alg, dir>>

\* The body of builder fn up to its first write_bin call: it creates the
\* objects objs, is left with the calls cs to make, and leaves the
\* generator as g.
Enter(fn, objs, cs, indices, g) ==
    /\ pc = "build"
    /\ Builders[bi] = fn
    /\ heap' = [i \in (nobj + 1)..(nobj + Len(objs)) |-> objs[i - nobj]]
    /\ nobj' = nobj + Len(objs)
    /\ frame' = [fn |-> fn, indices |-> indices]
    /\ calls' = [k \in 1..Len(cs) |->
                   [cs[k] EXCEPT !.of = [j \in 1..Len(cs[k].of) |->
                                           nobj + cs[k].of[j]]]]
    /\ rng' = g
    /\ drawLog' = IF g.calls > rng.calls
                  THEN Append(drawLog, [fn |-> fn, first |-> rng.calls + 1,
                                        last |-> g.calls])
                  ELSE drawLog
    /\ pc' = "call"
    /\ UNCHANGED <<alg, run, bi, cur, dir, out, wlog, prev>>

generate_simple_pair ==
    Enter("generate_simple_pair", SimpleBody.objs, SimpleBody.calls, <<>>, rng)

generate_header_pair ==
    LET b == HeaderBody(alg, rng)
    IN  Enter("generate_header_pair", b.objs, b.calls, <<>>, b.g)

generate_firmware_pair ==
    LET b == FirmwareBody(alg, rng)
    IN  Enter("generate_firmware_pair", b.objs, b.calls, b.indices, b.g)

generate_text_pair ==
    Enter("generate_text_pair", TextBody.objs, TextBody.calls, <<>>, rng)

generate_identical_pair ==
    Enter("generate_identical_pair", IdenticalBody.objs, IdenticalBody.calls,
          <<>>, rng)

\* The next write_bin call of the builder: its argument is evaluated, which
\* creates an object unless the argument is a plain name, and write_bin is
\* entered.
Call ==
    /\ pc = "call"
    /\ LET c == Head(calls)
           made == c.op # "ref"
           id == nobj + 1
           val == IF c.op = "concat"
                  THEN heap[c.of[1]].val \o heap[c.of[2]].val
                       \o heap[c.of[3]].val
                  ELSE heap[c.of[1]].val
           ref == IF made THEN id ELSE c.of[1]
       IN  /\ heap' = IF made
                      THEN [i \in DOMAIN heap \cup {id} |->
                              IF i = id THEN Obj("bytes", val) ELSE heap[i]]
                      ELSE heap
           /\ nobj' = IF made THEN id ELSE nobj
           /\ cur' = [name |-> c.name, data |-> ref]
           /\ wlog' = Append(wlog, [name |-> c.name, ref |-> ref,
                                    data |-> val, st |-> "called"])
    /\ calls' = Tail(calls)
    /\ pc' = WriteBinSteps[1]
    /\ UNCHANGED <<alg, run, bi, rng, drawLog, frame, dir, out, prev>>

SetSt(st) == wlog' = [wlog EXCEPT ![Len(wlog)].st = st]

\* open(path, "wb") creates the file, or empties the one that is there
OpenOk ==
    /\ pc = "open"
    /\ dir' = Put(dir, cur.name, <<>>)
    /\ SetSt("opened")
    /\ pc' = NextStep("open")
    /\ UNCHANGED <<alg, run, bi, rng, drawLog, heap, nobj, frame, calls, cur,
                   out, prev>>

\* open raises: the directory is as it was
OpenFail ==
    /\ pc = "open"
    /\ SetSt("failed")
    /\ pc' = OnError("open")
    /\ UNCHANGED <<alg, run, bi, rng, drawLog, heap, nobj, frame, calls, cur,
                   dir, out, prev>>

\* f.write(data) and the close on leaving the with block
WriteOk ==
    /\ pc = "write"
    /\ dir' = Put(dir, cur.name, heap[cur.data].val)
    /\ SetSt("written")
    /\ pc' = NextStep("write")
    /\ UNCHANGED <<alg, run, bi, rng, drawLog, heap, nobj, frame, calls, cur,
                   out, prev>>

\* the write or the close raises: the file holds a part of the data
WriteFail ==
    /\ pc = "write"
    /\ \E n \in PartialLens(heap[cur.data].val) :
           dir' = Put(dir, cur.name, SubSeq(heap[cur.data].val, 1, n))
    /\ SetSt("failed")
    /\ pc' = OnError("write")
    /\ UNCHANGED <<alg, run, bi, rng, drawLog, heap, nobj, frame, calls, cur,
                   out, prev>>

\* print(f"  wrote {path} ({len(data)} bytes)")
Report ==
    /\ pc = "print"
    /\ out' = Append(out, Line("wrote", cur.name, Len(heap[cur.data].val)))
    /\ pc' = NextStep("print")
    /\ UNCHANGED <<alg, run, bi, rng, drawLog, heap, nobj, frame, calls, cur,
                   dir, wlog, prev>>

\* write_bin returns to the builder, and the builder, after its last call,
\* to the main block: its objects are dropped and the next builder is called
Return ==
    /\ pc = "return"
    /\ cur' = NoCall
    /\ IF calls # <<>>
       THEN /\ pc' = "call"
            /\ UNCHANGED <<bi, heap, frame>>
       ELSE /\ heap' = EmptyHeap
            /\ frame' = NoFrame
            /\ bi' = IF bi < Len(Builders) THEN bi + 1 ELSE 0
            /\ pc' = IF bi < Len(Builders) THEN "build" ELSE "finish"
    /\ UNCHANGED <<alg, run, rng, drawLog, nobj, calls, dir, out, wlog, prev>>

\* print("Done.")
Finish ==
    /\ pc = "finish"
    /\ out' = Append(out, Line("done", "", 0))
    /\ pc' = "done"
    /\ UNCHANGED <<alg, run, bi, rng, drawLog, heap, nobj, frame, calls, cur,
                   dir, wlog, prev>>

Next ==
    \/ Start
    \/ generate_simple_pair
    \/ generate_header_pair
    \/ generate_firmware_pair
    \/ generate_text_pair
    \/ generate_identical_pair
    \/ Call
    \/ OpenOk
    \/ OpenFail
    \/ WriteOk
    \/ WriteFail
    \/ Report
    \/ Return
    \/ Finish

Spec == Init /\ [][Next]_vars

(***************************************************************************)
(* What the claims speak of.                                               *)
(***************************************************************************)
\* the fixtures of the catalogue in the order they are written, by the
\* names of the catalogue and by the names of the files
Stems ==
    <<"simple_v1", "simple_v2", "header_original", "header_modified",
      "firmware_v1", "firmware_v2", "text_original", "text_modified",
      "identical_a", "identical_b">>

FileNames ==
    <<"simple_v1.bin", "simple_v2.bin", "header_original.bin",
      "header_modified.bin", "firmware_v1.bin", "firmware_v2.bin",
      "text_original.bin", "text_modified.bin", "identical_a.bin",
      "identical_b.bin">>

\* the builders in the order the catalogue lists their pairs
PairOrder ==
    <<"generate_simple_pair", "generate_header_pair",
      "generate_firmware_pair", "generate_text_pair",
      "generate_identical_pair">>

NameSet(names) == {names[k] : k \in 1..Len(names)}

\* write_bin has been entered for name in this run
Has(name) == \E i \in 1..Len(wlog) : wlog[i].name = name

Entry(name) == wlog[CHOOSE i \in 1..Len(wlog) : wlog[i].name = name]

\* the last two calls of the run wrote n1 and then n2, both in full
PairWritten(n1, n2) ==
    /\ Len(wlog) >= 2
    /\ wlog[Len(wlog)].name = n2
    /\ wlog[Len(wlog)].st = "written"
    /\ wlog[Len(wlog) - 1].name = n1
    /\ wlog[Len(wlog) - 1].st = "written"

\* the lines of the console that confirm a file
Wrote == {j \in 1..Len(out) : out[j].kind = "wrote"}

(***************************************************************************)
(* C1.  A run that starts from an empty directory and meets no write       *)
(* failure ends with exactly the ten files of the catalogue, with sizes    *)
(* 64, 64, 126, 126, 512, 512, two equal sizes, 256 and 256; each name is  *)
(* written once and holds exactly the sequence written under it.           *)
(* Catalogue(names) states it for the file names names.                    *)
(***************************************************************************)
Catalogue(names) ==
    /\ DOMAIN dir = NameSet(names)
    /\ Cardinality(DOMAIN dir) = 10
    /\ Len(dir[names[1]]) = 64 /\ Len(dir[names[2]]) = 64
    /\ Len(dir[names[3]]) = 126 /\ Len(dir[names[4]]) = 126
    /\ Len(dir[names[5]]) = 512 /\ Len(dir[names[6]]) = 512
    /\ Len(dir[names[7]]) = Len(dir[names[8]])
    /\ Len(dir[names[9]]) = 256 /\ Len(dir[names[10]]) = 256
    /\ Len(wlog) = 10
    /\ \A i \in 1..10 : /\ wlog[i].name \in DOMAIN dir
                        /\ dir[wlog[i].name] = wlog[i].data
                        /\ \A j \in 1..10 : wlog[j].name = wlog[i].name => j = i

CleanRunDone == pc = "done" /\ prev.dir = EmptyDir

\* C1 as stated: the ten files are named simple_v1, simple_v2, ...
C1_CatalogueByStem == CleanRunDone => Catalogue(Stems)

\* C1 as amended: the ten files are named simple_v1.bin, simple_v2.bin, ...
C1_CatalogueByFileName == CleanRunDone => Catalogue(FileNames)

C1_Witness == CleanRunDone /\ run = 1 /\ Len(dir["text_modified.bin"]) = 161

(***************************************************************************)
(* C2.  Two complete runs leave the same files with the same bytes: after  *)
(* a run that follows a complete run, every file is as the earlier run     *)
(* left it, and at no point of the later run does the directory hold a     *)
(* file the earlier run did not leave.                                     *)
(***************************************************************************)
\* C2: in a run that follows a complete run, no file is added, every file
\* written in full holds the bytes it held before, and at the end the
\* directory is as the earlier run left it
C2_Determinism ==
    prev.pc = "done" =>
        /\ DOMAIN dir = DOMAIN prev.dir
        /\ \A i \in 1..Len(wlog) :
               wlog[i].st = "written" => wlog[i].data = prev.dir[wlog[i].name]
        /\ pc = "done" => dir = prev.dir

C2_Witness == prev.pc = "done" /\ pc = "done" /\ run = 2 /\ Len(wlog) = 10

(***************************************************************************)
(* C3.  The run ends at the first write failure: a failed write is the     *)
(* last write_bin call of its run, every file written before it holds      *)
(* what was handed over, and the files after it in the write order are,    *)
(* as stated, absent, and, as amended, as the run found them.              *)
(***************************************************************************)
AbortsAtFailure ==
    /\ \A i \in 1..Len(wlog) :
           wlog[i].st = "failed" => i = Len(wlog) /\ pc = "aborted"
    /\ pc = "aborted" =>
           /\ Len(wlog) \in 1..10
           /\ wlog[Len(wlog)].st = "failed"
           /\ \A i \in 1..(Len(wlog) - 1) :
                  /\ wlog[i].st = "written"
                  /\ wlog[i].name \in DOMAIN dir
                  /\ dir[wlog[i].name] = wlog[i].data

\* C3 as stated: the files after the failure point are absent
C3_LaterFilesAbsent ==
    /\ AbortsAtFailure
    /\ pc = "aborted" =>
           \A j \in (Len(wlog) + 1)..10 : FileNames[j] \notin DOMAIN dir

\* C3 as amended: the files after the failure point are as the run found
\* them, absent or with the content they had
C3_LaterFilesUntouched ==
    /\ AbortsAtFailure
    /\ pc = "aborted" =>
           \A j \in (Len(wlog) + 1)..10 :
               /\ FileNames[j] \in DOMAIN dir <=> FileNames[j] \in DOMAIN prev.dir
               /\ FileNames[j] \in DOMAIN dir =>
                      dir[FileNames[j]] = prev.dir[FileNames[j]]

C3_Witness ==
    /\ pc = "aborted"
    /\ prev.dir = EmptyDir
    /\ Len(wlog) = 7
    /\ DOMAIN dir = {FileNames[j] : j \in 1..7}
    /\ Len(dir["text_original.bin"]) = 80

(***************************************************************************)
(* C4.  Dense random: the two firmware files are 512 bytes each and differ *)
(* at exactly the 80 distinct sampled offsets; at each of them             *)
(* (v2[i] - v1[i]) mod 256 is in 1..255.                                   *)
(***************************************************************************)
FirmwareWritten ==
    /\ PairWritten("firmware_v1.bin", "firmware_v2.bin")
    /\ frame.fn = "generate_firmware_pair"

Sampled == {frame.indices[k] : k \in 1..Len(frame.indices)}

\* C4: once both firmware files are written they are 512 bytes each and
\* differ at exactly the 80 distinct sampled offsets, by 1..255 mod 256
C4_DenseRandom ==
    FirmwareWritten =>
        LET v1 == dir["firmware_v1.bin"]
            v2 == dir["firmware_v2.bin"]
        IN  /\ Len(v1) = 512 /\ Len(v2) = 512
            /\ IsBytes(v1) /\ IsBytes(v2)
            /\ Len(frame.indices) = 80
            /\ Cardinality(Sampled) = 80
            /\ Sampled \subseteq 0..511
            /\ DiffAt(v1, v2) = Sampled
            /\ Cardinality(DiffAt(v1, v2)) = 80
            /\ \A i \in DiffAt(v1, v2) :
                   (At(v2, i) - At(v1, i)) % 256 \in 1..255

\* a sampled offset where the sum wrapped around 256
C4_Witness ==
    /\ FirmwareWritten
    /\ \E i \in Sampled :
           At(dir["firmware_v2.bin"], i) < At(dir["firmware_v1.bin"], i)

(***************************************************************************)
(* C5.  Header mutation: the two header files are 126 bytes each, equal    *)
(* from offset 6 on, differ in exactly one of the offsets 0..3, and their  *)
(* bytes 4..5 read as little-endian 1 and 2.                               *)
(***************************************************************************)
HeaderWritten == PairWritten("header_original.bin", "header_modified.bin")

\* C5: once both header files are written they are 126 bytes each, equal
\* from offset 6 on, differ at one offset of 0..3, and carry versions 1 and 2
C5_HeaderMutation ==
    HeaderWritten =>
        LET o == dir["header_original.bin"]
            m == dir["header_modified.bin"]
        IN  /\ Len(o) = 126 /\ Len(m) = 126
            /\ IsBytes(o) /\ IsBytes(m)
            /\ \A i \in 6..125 : At(o, i) = At(m, i)
            /\ Cardinality(DiffAt(o, m) \cap 0..3) = 1
            /\ UnpackLE16(At(o, 4), At(o, 5)) = 1
            /\ UnpackLE16(At(m, 4), At(m, 5)) = 2

C5_Witness ==
    /\ HeaderWritten
    /\ DiffAt(dir["header_original.bin"], dir["header_modified.bin"]) = {1, 4}

(***************************************************************************)
(* C6.  Text substitution: the two text files have the same length and     *)
(* differ at exactly the offsets 4, 10, 35, 80 and 120.                    *)
(***************************************************************************)
TextWritten == PairWritten("text_original.bin", "text_modified.bin")

\* C6: once both text files are written they have the same length and
\* differ at exactly the offsets 4, 10, 35, 80 and 120, all inside the text
C6_TextSubstitution ==
    TextWritten =>
        LET o == dir["text_original.bin"]
            m == dir["text_modified.bin"]
        IN  /\ Len(o) = Len(m)
            /\ {4, 10, 35, 80, 120} \subseteq 0..(Len(o) - 1)
            /\ DiffAt(o, m) = {4, 10, 35, 80, 120}

C6_Witness ==
    /\ TextWritten
    /\ At(dir["text_original.bin"], 120) = 112
    /\ At(dir["text_modified.bin"], 120) = 33

(***************************************************************************)
(* C7.  Identical pair: the two sequences handed to write_bin are 256      *)
(* bytes, value i at offset i, and equal; as stated they are separate      *)
(* copies, and as amended they are one and the same immutable bytes        *)
(* object, written to two files.                                           *)
(***************************************************************************)
BothIdenticalCalled == Has("identical_a.bin") /\ Has("identical_b.bin")

IdenticalContent ==
    LET a == Entry("identical_a.bin").data
        b == Entry("identical_b.bin").data
    IN  /\ Len(a) = 256
        /\ \A i \in 0..255 : At(a, i) = i
        /\ a = b

\* C7 as stated: the two arguments are separate objects
C7_SeparateCopies ==
    BothIdenticalCalled =>
        /\ IdenticalContent
        /\ Entry("identical_a.bin").ref # Entry("identical_b.bin").ref

\* C7 as amended: the two arguments are one bytes object, which no
\* statement can change, and the two files are separate
C7_OneImmutableObject ==
    BothIdenticalCalled =>
        LET r == Entry("identical_a.bin").ref
        IN  /\ IdenticalContent
            /\ Entry("identical_b.bin").ref = r
            /\ r \in DOMAIN heap =>
                   /\ heap[r].type = "bytes"
                   /\ heap[r].val = Entry("identical_a.bin").data
            /\ PairWritten("identical_a.bin", "identical_b.bin") =>
                   /\ dir["identical_a.bin"] = Entry("identical_a.bin").data
                   /\ dir["identical_b.bin"] = Entry("identical_b.bin").data

C7_Witness ==
    /\ PairWritten("identical_a.bin", "identical_b.bin")
    /\ cur.data \in DOMAIN heap
    /\ Entry("identical_a.bin").ref = cur.data
    /\ dir["identical_a.bin"] = dir["identical_b.bin"]

(***************************************************************************)
(* C8.  Simple scatter: simple_v1 is the 64 bytes 0..63 and simple_v2      *)
(* differs from it at exactly the offsets 0, 15, 31, 47 and 63, where it   *)
(* holds 0xFF, 0xAA, 0xBB, 0xCC and 0xDD.                                  *)
(***************************************************************************)
SimpleWritten == PairWritten("simple_v1.bin", "simple_v2.bin")

\* C8: once both simple files are written, simple_v1 holds 0..63 and
\* simple_v2 differs from it at exactly the five offsets, with the five values
C8_SimpleScatter ==
    SimpleWritten =>
        LET b == dir["simple_v1.bin"]
            m == dir["simple_v2.bin"]
        IN  /\ Len(b) = 64 /\ Len(m) = 64
            /\ \A i \in 0..63 : At(b, i) = i
            /\ DiffAt(b, m) = {0, 15, 31, 47, 63}
            /\ At(m, 0) = 255 /\ At(m, 15) = 170 /\ At(m, 31) = 187
            /\ At(m, 47) = 204 /\ At(m, 63) = 221

C8_Witness ==
    /\ SimpleWritten
    /\ At(dir["simple_v2.bin"], 15) = 170
    /\ At(dir["simple_v1.bin"], 15) = 15

(***************************************************************************)
(* C9.  The builders run in the order simple, header, firmware, text,      *)
(* identical; both files of a pair are written before the next builder     *)
(* starts, so the files are written in the order of the catalogue; the     *)
(* random source serves the 120 draws of the header body as its calls      *)
(* 1..120 and the firmware builder after them.                             *)
(***************************************************************************)
\* C9: the write_bin calls follow the catalogue, the active builder is the
\* one whose pair is due with all earlier pairs written and confirmed, and
\* the draws are calls 1..120 (header) and then 121..713 (firmware)
C9_FixedOrder ==
    /\ Len(wlog) <= 10
    /\ \A i \in 1..Len(wlog) : wlog[i].name = FileNames[i]
    /\ frame.fn # "" =>
           /\ bi \in 1..5
           /\ frame.fn = PairOrder[bi]
           /\ Len(wlog) \in {2 * bi - 2, 2 * bi - 1, 2 * bi}
           /\ \A i \in 1..(2 * bi - 2) : wlog[i].st = "written"
           /\ Cardinality(Wrote) >= 2 * bi - 2
    /\ Len(drawLog) <= 2
    /\ Len(drawLog) >= 1 =>
           drawLog[1] = [fn |-> "generate_header_pair", first |-> 1,
                         last |-> 120]
    /\ Len(drawLog) = 2 =>
           /\ drawLog[2].fn = "generate_firmware_pair"
           /\ drawLog[2].first = 121
           /\ drawLog[2].last = 120 + 512 + 1 + 80
    /\ rng.calls = IF drawLog = <<>> THEN 0 ELSE drawLog[Len(drawLog)].last
    /\ Has("firmware_v1.bin") => Len(drawLog) = 2
    /\ Has("header_original.bin") => Len(drawLog) >= 1

C9_Witness ==
    /\ pc = "done"
    /\ Len(wlog) = 10
    /\ Len(drawLog) = 2
    /\ rng.calls = 713

(***************************************************************************)
(* C10.  A confirmation line is printed only after its file is written in  *)
(* full and tells the length of what was written; the completion notice    *)
(* comes only after all ten confirmations; a run that aborts prints no     *)
(* confirmation for the failing file and no completion notice.             *)
(***************************************************************************)
\* C10: the confirmation lines are lines 2.. of the console, one per
\* write_bin call in order, each for a file written in full and telling
\* its length; the notice is last and follows ten of them; an aborted run
\* has one line fewer than calls and no notice
C10_ConfirmAfterWrite ==
    /\ Wrote = 2..(Cardinality(Wrote) + 1)
    /\ Cardinality(Wrote) <= Len(wlog)
    /\ \A i \in 1..Cardinality(Wrote) :
           /\ wlog[i].st = "written"
           /\ out[i + 1] = Line("wrote", wlog[i].name, Len(wlog[i].data))
           /\ wlog[i].name \in DOMAIN dir
           /\ dir[wlog[i].name] = wlog[i].data
    /\ \A j \in 1..Len(out) :
           out[j].kind = "done" => j = Len(out) /\ Cardinality(Wrote) = 10
    /\ pc = "aborted" =>
           /\ Cardinality(Wrote) = Len(wlog) - 1
           /\ \A j \in 1..Len(out) : out[j].kind # "done"

C10_Witness ==
    /\ pc = "aborted"
    /\ Len(wlog) = 6
    /\ Cardinality(Wrote) = 5
    /\ "firmware_v2.bin" \in DOMAIN dir
    /\ Len(dir["firmware_v2.bin"]) = 256

=============================================================================
